---- MODULE Spec2Model ----
(***************************************************************************)
(* Workflow engine (app/engine.py): a WorkflowGraph of nodes and edges and *)
(* WorkflowGraph.run, the traversal that executes node functions over a    *)
(* state dictionary, keeps per-run loop counters and produces a list of    *)
(* ExecutionLog entries.  Two runs of one graph are interleaved at the     *)
(* granularity of one iteration of run's while loop.                       *)
(*                                                                         *)
(* Spec        two runs of a graph of the family Graphs, and their callers *)
(* LiveSpec    one run of any length, under weak fairness                  *)
(* BuildSpec   the builder methods called on a new graph                   *)
(* ReviewSpec  two runs of the code-review workflow (app/workflows.py)     *)
(* ApiSpec     POST /graph/run (app/main.py) calling run                   *)
(*                                                                         *)
(* Python values are modelled as follows.  A dict is a function from a     *)
(* finite set of string keys; dict.copy() copies that function and keeps   *)
(* the references it holds.  A mutable list is a cell of heap, named by a  *)
(* reference [ref |-> a]; the cell holds the list's length.  None of an    *)
(* Optional[str] is the string "None", which is not a node id of the       *)
(* model; None of an Optional[Callable] is NoneFn.                         *)
(***************************************************************************)
EXTENDS Integers, Sequences, FiniteSets, TLC

\* ------------------------------------------------------------------ bounds

\* Iterations of run's while loop that one run of the model executes.
MaxLog == 5
\* Largest max_iterations of a loop node without a loop condition.
MaxK == 2
\* Largest N of a loop condition "iteration < N".
MaxN == 2
\* Largest length of a list held in the state.
MaxItems == 2
\* The two runs (two callers) of the graph.
Runs == {1, 2}
\* Addresses of the list objects the callers' initial states hold.
Addr == {1, 2}
\* The numbers of outgoing edges the first node is given.
OutDegrees == 0..2

\* ------------------------------------------------------------ Python values

None == "None"

\* bool(x) of an Optional[str]: None and the empty string are falsy.
Truthy(x) == x # None /\ x # ""

\* A callable is named; arg is the constant its closure holds.
Callable(name, arg) == [name |-> name, arg |-> arg]
NoneFn == Callable("None", 0)

\* A message text: an f-string is its template and the values formatted in.
Message(text, node, n) == [text |-> text, node |-> node, n |-> n, quoted |-> FALSE]
NoMessage == Message("None", "", 0)

\* An exception object: its class and its args[0].
Exception(type, args) == [type |-> type, args |-> args]
NoException == Exception("None", NoMessage)

\* str(e): the argument, and for a KeyError the argument's repr (quoted).
Str(e) == IF e.type = "KeyError" THEN [e.args EXCEPT !.quoted = TRUE] ELSE e.args

EmptyDict == [k \in {} |-> 0]

\* d.get(k, default)
Get(d, k, default) == IF k \in DOMAIN d THEN d[k] ELSE default

\* d.update(other): key overwrite.
Update(d, other) ==
  [k \in DOMAIN d \cup DOMAIN other |-> IF k \in DOMAIN other THEN other[k] ELSE d[k]]

Ref(a) == [ref |-> a]

\* The value a dict denotes (what == compares): each list by its content.
Deep(d, hp) == [k \in DOMAIN d |-> IF k = "items" THEN <<"list", hp[d[k].ref]>> ELSE d[k]]

\* --------------------------------------------------- user-supplied callables

\* ------------------------------------------ code-review processing functions

\* A text is the sequence of its lines (text.split("\n")); a line is its
\* indentation (the number of leading blanks) and the tokens after it.  The
\* empty text is one empty line.
Line(indent, tokens) == [indent |-> indent, tokens |-> tokens]
EmptyText == <<Line(0, <<>>)>>

\* text.count(sub) for a token sub.
RECURSIVE CountIn(_, _)
CountIn(tokens, sub) ==
  IF tokens = <<>> THEN 0
  ELSE (IF tokens[1] = sub THEN 1 ELSE 0) + CountIn(Tail(tokens), sub)

RECURSIVE TextCount(_, _)
TextCount(text, sub) ==
  IF text = <<>> THEN 0
  ELSE CountIn(text[1].tokens, sub) + TextCount(Tail(text), sub)

\* text.count("\n")
NewlineCount(text) == Len(text) - 1

\* line.strip().startswith("def ")
StartsWithDef(line) == line.tokens # <<>> /\ line.tokens[1] = "def "

\* line.split("def ")[1].split("(")[0] of a line that starts with "def ".
FuncName(line) == line.tokens[2]

\* The lines with len(line) - len(line.lstrip()) > 8.
RECURSIVE DeepLines(_)
DeepLines(text) ==
  IF text = <<>> THEN 0
  ELSE (IF text[1].indent > 8 THEN 1 ELSE 0) + DeepLines(Tail(text))

RECURSIVE FuncNames(_)
FuncNames(text) ==
  IF text = <<>> THEN <<>>
  ELSE (IF StartsWithDef(text[1]) THEN <<FuncName(text[1])>> ELSE <<>>) \o FuncNames(Tail(text))

\* Mutant of extract_functions: every "def " of the text counts, wherever it
\* stands in its line.
extract_functions_anywhere(state) ==
  LET code == Get(state, "code", EmptyText) IN
  [functions |-> FuncNames(code), function_count |-> TextCount(code, "def "),
   iteration |-> Get(state, "iteration", 0) + 1]

extract_functions(state) ==
  LET code == Get(state, "code", EmptyText)
      functions == FuncNames(code)
  IN  [functions |-> functions, function_count |-> Len(functions),
       iteration |-> Get(state, "iteration", 0) + 1]

check_complexity(state) ==
  LET code == Get(state, "code", EmptyText)
      complexity_issues == DeepLines(code)
      score == 100 - complexity_issues * 5
  IN  [complexity_issues |-> complexity_issues,
       complexity_score |-> IF score < 0 THEN 0 ELSE score]

detect_issues(state) ==
  LET code == Get(state, "code", EmptyText)
      func_count == Get(state, "function_count", 0)
      issues ==
        (IF NewlineCount(code) > 30 THEN <<"Long function">> ELSE <<>>)
        \o (IF TextCount(code, "\"\"\"") < func_count THEN <<"Missing docstrings">> ELSE <<>>)
        \o (IF TextCount(code, "import") > 0 /\ TextCount(code, "import") > func_count
              THEN <<"Potential unused imports">> ELSE <<>>)
  IN  [issues |-> issues, issue_count |-> Len(issues)]

\* quality_score is a float with one decimal: it is held in tenths.
suggest_improvements(state) ==
  LET issues == Get(state, "issues", <<>>)
      complexity_score == Get(state, "complexity_score", 50)
      issue_count == Get(state, "issue_count", 0)
      Has(x) == \E i \in DOMAIN issues : issues[i] = x
      suggestions ==
        (IF issue_count > 2 THEN <<"Refactor into smaller functions">> ELSE <<>>)
        \o (IF complexity_score < 60 THEN <<"Reduce nesting depth">> ELSE <<>>)
        \o (IF Has("Missing docstrings") THEN <<"Add comprehensive docstrings">> ELSE <<>>)
        \o (IF Has("Potential unused imports") THEN <<"Clean up imports">> ELSE <<>>)
      deduction == IF 100 - complexity_score > 0 THEN 100 - complexity_score ELSE 0
      score == 1000 - issue_count * 100 - deduction
  IN  [suggestions |-> suggestions,
       quality_score |-> IF score < 0 THEN 0 ELSE IF score > 1000 THEN 1000 ELSE score]

\* What a call of a processing function does: the exception it raises (or
\* NoException), the dict it was given as that call leaves it, the heap as the
\* call leaves it, and the partial state it returns.
FnOutcome(exc, arg, hp, result) == [exc |-> exc, arg |-> arg, heap |-> hp, result |-> result]

\* The processing functions of the model.
\*   inc          returns {"iteration": state.get("iteration", 0) + 1}
\*   set_flag     returns {"flag": 1}
\*   set_in_place sets state["mark"] = 1 in the dict it is given, returns {}
\*   fail         raises RuntimeError("boom")
\*   fail_value   raises ValueError("bad value")
\*   append_item  appends to state["items"] in place while it is shorter than
\*                MaxItems, returns {}
\* and the four functions of the code-review workflow.
Fns == {"inc", "set_flag", "set_in_place", "fail", "append_item"}

CallFn(fn, state, hp) ==
  CASE fn.name = "inc" ->
         FnOutcome(NoException, state, hp, [iteration |-> Get(state, "iteration", 0) + 1])
    [] fn.name = "set_flag" ->
         FnOutcome(NoException, state, hp, [flag |-> 1])
    [] fn.name = "set_in_place" ->
         FnOutcome(NoException, Update(state, [mark |-> 1]), hp, EmptyDict)
    [] fn.name = "fail" ->
         FnOutcome(Exception("RuntimeError", Message("boom", "", 0)), state, hp, EmptyDict)
    [] fn.name = "fail_value" ->
         FnOutcome(Exception("ValueError", Message("bad value", "", 0)), state, hp, EmptyDict)
    [] fn.name = "extract_functions" ->
         FnOutcome(NoException, state, hp, extract_functions(state))
    [] fn.name = "check_complexity" ->
         FnOutcome(NoException, state, hp, check_complexity(state))
    [] fn.name = "detect_issues" ->
         FnOutcome(NoException, state, hp, detect_issues(state))
    [] fn.name = "suggest_improvements" ->
         FnOutcome(NoException, state, hp, suggest_improvements(state))
    [] fn.name = "append_item" ->
         IF "items" \in DOMAIN state /\ hp[state.items.ref] < MaxItems
           THEN FnOutcome(NoException, state,
                          [hp EXCEPT ![state.items.ref] = @ + 1], EmptyDict)
           ELSE FnOutcome(NoException, state, hp, EmptyDict)

\* What a call of a loop condition or of an edge condition does: the
\* exception it raises (or NoException) and the truth of what it returns.
\*   flag_set      state.get("flag") == 1
\*   iteration_lt  state.get("iteration", 0) < N
\*   always        True
\*   missing_key   state["missing"], which raises KeyError('missing')
CondOutcome(exc, value) == [exc |-> exc, value |-> value]

CallCond(cond, state) ==
  CASE cond.name = "flag_set" -> CondOutcome(NoException, Get(state, "flag", 0) = 1)
    [] cond.name = "iteration_lt" ->
         CondOutcome(NoException, Get(state, "iteration", 0) < cond.arg)
    [] cond.name = "always" -> CondOutcome(NoException, TRUE)
    [] cond.name = "missing_key" ->
         CondOutcome(Exception("KeyError", Message("missing", "", 0)), FALSE)

\* ------------------------------------------------------------ WorkflowGraph

WorkflowNode(id, fn, node_type, loop_condition, max_iterations) ==
  [id |-> id, fn |-> fn, node_type |-> node_type,
   loop_condition |-> loop_condition, max_iterations |-> max_iterations]

WorkflowEdge(from_node, to_node, condition) ==
  [from_node |-> from_node, to_node |-> to_node, condition |-> condition]

\* WorkflowGraph.__init__
EmptyGraph == [nodes |-> EmptyDict, edges |-> <<>>, start_node |-> None, end_nodes |-> {}]

\* A builder call's outcome: the graph after it and the exception it raised.
Built(g, exc) == [graph |-> g, exc |-> exc]

\* Mutant of add_node: a duplicate id replaces the registered node before the
\* ValueError is raised.
add_node_overwrites(g, node_id, fn, node_type, loop_condition, max_iterations) ==
  LET g2 == [g EXCEPT
               !.nodes = Update(g.nodes,
                   [k \in {node_id} |->
                      WorkflowNode(node_id, fn, node_type, loop_condition, max_iterations)]),
               !.start_node = IF g.start_node = None THEN node_id ELSE g.start_node]
  IN  IF node_id \in DOMAIN g.nodes
        THEN Built(g2, Exception("ValueError", Message("already exists", node_id, 0)))
        ELSE Built(g2, NoException)

\* Mutant of add_node: the start node is set when it is falsy, not when it is
\* None.
add_node_falsy_start(g, node_id, fn, node_type, loop_condition, max_iterations) ==
  IF node_id \in DOMAIN g.nodes
    THEN Built(g, Exception("ValueError", Message("already exists", node_id, 0)))
    ELSE Built([g EXCEPT
                  !.nodes = Update(g.nodes,
                      [k \in {node_id} |->
                         WorkflowNode(node_id, fn, node_type, loop_condition, max_iterations)]),
                  !.start_node = IF ~Truthy(g.start_node) THEN node_id ELSE g.start_node],
               NoException)

add_node(g, node_id, fn, node_type, loop_condition, max_iterations) ==
  IF node_id \in DOMAIN g.nodes
    THEN Built(g, Exception("ValueError", Message("already exists", node_id, 0)))
    ELSE Built([g EXCEPT
                  !.nodes = Update(g.nodes,
                      [k \in {node_id} |->
                         WorkflowNode(node_id, fn, node_type, loop_condition, max_iterations)]),
                  !.start_node = IF g.start_node = None THEN node_id ELSE g.start_node],
               NoException)

\* Mutant of add_edge: the destination is not checked.
add_edge_unchecked(g, from_node, to_node, condition) ==
  IF from_node \notin DOMAIN g.nodes
    THEN Built(g, Exception("ValueError", Message("From node does not exist", from_node, 0)))
    ELSE Built([g EXCEPT !.edges = Append(g.edges, WorkflowEdge(from_node, to_node, condition))],
               NoException)

add_edge(g, from_node, to_node, condition) ==
  IF from_node \notin DOMAIN g.nodes
    THEN Built(g, Exception("ValueError", Message("From node does not exist", from_node, 0)))
  ELSE IF to_node \notin DOMAIN g.nodes
    THEN Built(g, Exception("ValueError", Message("To node does not exist", to_node, 0)))
  ELSE Built([g EXCEPT !.edges = Append(g.edges, WorkflowEdge(from_node, to_node, condition))],
             NoException)

set_start_node(g, node_id) ==
  IF node_id \notin DOMAIN g.nodes
    THEN Built(g, Exception("ValueError", Message("does not exist", node_id, 0)))
    ELSE Built([g EXCEPT !.start_node = node_id], NoException)

\* node_ids is a list; the first absent id raises.
set_end_nodes(g, node_ids) ==
  IF \E i \in DOMAIN node_ids : node_ids[i] \notin DOMAIN g.nodes
    THEN LET i == CHOOSE j \in DOMAIN node_ids :
                    /\ node_ids[j] \notin DOMAIN g.nodes
                    /\ \A h \in 1..(j - 1) : node_ids[h] \in DOMAIN g.nodes
         IN  Built(g, Exception("ValueError", Message("does not exist", node_ids[i], 0)))
    ELSE Built([g EXCEPT !.end_nodes = {node_ids[i] : i \in DOMAIN node_ids}], NoException)

\* The outcome of evaluating the outgoing edges of a node: the exception an
\* edge condition raised (or NoException) and the destinations collected.
NextNodes(exc, next_nodes) == [exc |-> exc, next_nodes |-> next_nodes]

RECURSIVE CollectNext(_, _, _, _)
CollectNext(edges, i, state, next_nodes) ==
  IF i > Len(edges) THEN NextNodes(NoException, next_nodes)
  ELSE LET edge == edges[i] IN
       IF edge.condition # NoneFn
         THEN LET c == CallCond(edge.condition, state) IN
              IF c.exc # NoException THEN NextNodes(c.exc, next_nodes)
              ELSE IF c.value
                THEN CollectNext(edges, i + 1, state, Append(next_nodes, edge.to_node))
                ELSE CollectNext(edges, i + 1, state, next_nodes)
         ELSE CollectNext(edges, i + 1, state, Append(next_nodes, edge.to_node))

\* The edges leaving a node, in the order they were added.
OutgoingEdges(g, current_node) == SelectSeq(g.edges, LAMBDA e : e.from_node = current_node)

_get_next_nodes(g, current_node, state) ==
  CollectNext(OutgoingEdges(g, current_node), 1, state, <<>>)

\* ------------------------------------------------------- graphs of the model

NodeSpec(node_type, fn, loop_condition, max_iterations) ==
  [node_type |-> node_type, fn |-> Callable(fn, 0),
   loop_condition |-> loop_condition, max_iterations |-> max_iterations]

\* The conditions put on edges.
EdgeConditions == {NoneFn, Callable("flag_set", 0)}

\* The loop conditions given to loop nodes.
LoopConditions ==
  {Callable("iteration_lt", n) : n \in 1..MaxN}
    \cup {Callable("always", 0), Callable("missing_key", 0)}

\* The first node: a standard node with each function, a branch node, a loop
\* node without a condition for each bound, a loop node with each condition
\* (its bound 0, which every visit exceeds).
SpecsA ==
  {NodeSpec("standard", f, NoneFn, 0) : f \in Fns}
    \cup {NodeSpec("branch", "inc", NoneFn, 0)}
    \cup {NodeSpec("loop", "inc", NoneFn, k) : k \in 0..MaxK}
    \cup {NodeSpec("loop", "inc", c, 0) : c \in LoopConditions}

\* The second node.
SpecsB == {NodeSpec("standard", "inc", NoneFn, 0), NodeSpec("standard", "fail", NoneFn, 0)}

\* The lists of edges from src to nodes of dests, of each length of OutDegrees.
EdgeLists(src, dests, conds) ==
  UNION {[1..n -> {WorkflowEdge(src, d, c) : d \in dests, c \in conds}] : n \in OutDegrees}

AddNodeSpec(g, node_id, s) ==
  add_node(g, node_id, s.fn, s.node_type, s.loop_condition, s.max_iterations).graph

RECURSIVE AddEdges(_, _, _)
AddEdges(g, edges, i) ==
  IF i > Len(edges) THEN g
  ELSE AddEdges(add_edge(g, edges[i].from_node, edges[i].to_node, edges[i].condition).graph,
                edges, i + 1)

\* A graph with node "A" alone.
GraphsOne ==
  {AddEdges(AddNodeSpec(EmptyGraph, "A", sa), ea, 1) :
     sa \in SpecsA, ea \in EdgeLists("A", {"A"}, EdgeConditions)}

\* A graph with node "A" and a second node, "B" or "" (the empty string is a
\* str, and add_node accepts it), the second node's edge back to "A" or none,
\* and the start node left as add_node set it or set to the second node.
GraphsTwo ==
  UNION {
    {LET g1 == AddNodeSpec(AddNodeSpec(EmptyGraph, "A", sa), second, sb)
         g2 == AddEdges(AddEdges(g1, ea, 1), eb, 1)
     IN  IF start = None THEN g2 ELSE set_start_node(g2, start).graph :
       sa \in SpecsA, ea \in EdgeLists("A", {"A", second}, EdgeConditions),
       sb \in IF second = "B" THEN SpecsB ELSE {NodeSpec("standard", "inc", NoneFn, 0)},
       eb \in IF second = "B" THEN {<<>>, <<WorkflowEdge("B", "A", NoneFn)>>} ELSE {<<>>},
       start \in {None, second}} :
    second \in {"B", ""}}

\* The graph whose only node, hence its start node, has the empty string as
\* its id.
GraphsEmptyId == {AddNodeSpec(EmptyGraph, "", NodeSpec("standard", "inc", NoneFn, 0))}

\* The graphs run: built by the builder calls above, with no terminal set or
\* with the terminal set {"A"}; the graph with the node "" alone; and the
\* graph with no node.
Graphs ==
  {EmptyGraph}
    \cup GraphsEmptyId
    \cup {set_end_nodes(g, ends).graph : g \in GraphsOne \cup GraphsTwo, ends \in {<<>>, <<"A">>}}

\* The callers' initial states: each caller's own dict, holding a list; the
\* two dicts hold the same list object or two list objects.
InitialStates == {[r \in Runs |-> [items |-> Ref(IF r = 1 THEN 1 ELSE a)]] : a \in Addr}

\* -------------------------------------------------------------------- state

VARIABLES
  graph,             \* the WorkflowGraph both runs execute
  heap,              \* the list objects: heap[a] is the length of list a
  initial_state,     \* initial_state[r]: the dict caller r passes to run
  pc,                \* pc[r]: Idle, Running, LoopRepeat, Terminated, Failed
  state,             \* run's local state
  logs,              \* run's local logs
  visited_sequence,  \* run's local visited_sequence
  current_node_id,   \* run's local current_node_id
  loop_counter,      \* run's local loop_counter
  raised,            \* the exception run r raised to its caller
  calls,             \* the node ids whose fn run r has invoked, in order
  moves,             \* how run r left each node it completed
  warnings,          \* what run r passed to logger.warning
  builder,           \* the latest builder call on the graph and what it raised
  http               \* http[r]: the POST /graph/run request whose handler calls
                     \* run r, and the response to it

vars == <<graph, heap, initial_state, pc, state, logs, visited_sequence,
          current_node_id, loop_counter, raised, calls, moves, warnings,
          builder, http>>

\* A builder call: the method, its node-id arguments, the exception it raised.
BuilderCall(op, args, exc) == [op |-> op, args |-> args, exc |-> exc]
NoBuilderCall == BuilderCall("None", <<>>, NoException)

\* A request to POST /graph/run and the response: status 0 is no response
\* yet; detail is the HTTPException's detail, a prefix and a message.
HttpExchange(graph_id, status, prefix, message) ==
  [graph_id |-> graph_id, status |-> status, prefix |-> prefix, message |-> message]
NoRequest == HttpExchange(None, 0, "", NoMessage)

ExecutionLog(node_id, status, input_state, output_state, error) ==
  [node_id |-> node_id, status |-> status, input_state |-> input_state,
   output_state |-> output_state, error |-> error]

Move(from, kind, to) == [from |-> from, kind |-> kind, to |-> to]

Init ==
  /\ graph \in Graphs
  /\ heap = [a \in Addr |-> 0]
  /\ initial_state \in InitialStates
  /\ pc = [r \in Runs |-> "Idle"]
  /\ state = [r \in Runs |-> EmptyDict]
  /\ logs = [r \in Runs |-> <<>>]
  /\ visited_sequence = [r \in Runs |-> <<>>]
  /\ current_node_id = [r \in Runs |-> None]
  /\ loop_counter = [r \in Runs |-> EmptyDict]
  /\ raised = [r \in Runs |-> NoException]
  /\ calls = [r \in Runs |-> <<>>]
  /\ moves = [r \in Runs |-> <<>>]
  /\ warnings = [r \in Runs |-> <<>>]
  /\ builder = NoBuilderCall
  /\ http = [r \in Runs |-> NoRequest]

\* ------------------------------------------------------ WorkflowGraph.run

\* What one iteration of run's while loop does, from the node it executes,
\* the state, the heap and the loop counters it starts with:
\*   exc      the exception it re-raises (NoException: none)
\*   state, heap, loop_counter   as the iteration leaves them
\*   entries  the log entries it appends
\*   called   whether it invoked the node's fn
\*   kind     how it left the node: repeat (continue), edge, end
\*   current_node_id   what it assigned to current_node_id
\*   warnings what it passed to logger.warning
Iteration(exc, st, hp, lc, entries, called, kind, cur, warns) ==
  [exc |-> exc, state |-> st, heap |-> hp, loop_counter |-> lc, entries |-> entries,
   called |-> called, kind |-> kind, current_node_id |-> cur, warnings |-> warns]

\* Mutant of Except: the entry's error is the text of the logger.error line,
\* not str(e).
ExceptLoggedText(e, current, input_state, st, hp, lc, entries, called) ==
  Iteration(e, st, hp, lc,
            Append(entries, ExecutionLog(current, "error", input_state, st,
                                         Message("Error executing node", current, 0))),
            called, "raise", current, <<>>)

\* run's except clause: the error entry, and the exception raised again.
Except(e, current, input_state, st, hp, lc, entries, called) ==
  Iteration(e, st, hp, lc,
            Append(entries, ExecutionLog(current, "error", input_state, st, Str(e))),
            called, "raise", current, <<>>)

\* Mutant of FollowEdges: ending at a node outside a non-empty terminal set
\* raises instead of warning.
FollowEdgesStrict(g, current, input_state, st, hp, lc, entries) ==
  LET n == _get_next_nodes(g, current, st) IN
  IF n.exc # NoException
    THEN Except(n.exc, current, input_state, st, hp, lc, entries, TRUE)
  ELSE IF n.next_nodes = <<>>
    THEN IF current \notin g.end_nodes /\ g.end_nodes # {}
           THEN Except(Exception("RuntimeError",
                                 Message("ended at a node which is not an end node", current, 0)),
                       current, input_state, st, hp, lc, entries, TRUE)
           ELSE Iteration(NoException, st, hp, lc, entries, TRUE, "end", None, <<>>)
  ELSE Iteration(NoException, st, hp, lc, entries, TRUE, "edge", n.next_nodes[1], <<>>)

\* "Get next nodes" to the end of the try block.
FollowEdges(g, current, input_state, st, hp, lc, entries) ==
  LET n == _get_next_nodes(g, current, st) IN
  IF n.exc # NoException
    THEN Except(n.exc, current, input_state, st, hp, lc, entries, TRUE)
  ELSE IF n.next_nodes = <<>>
    THEN Iteration(NoException, st, hp, lc, entries, TRUE, "end", None,
                   IF current \notin g.end_nodes /\ g.end_nodes # {}
                     THEN <<Message("ended at a node which is not an end node", current, 0)>>
                     ELSE <<>>)
  ELSE IF Len(n.next_nodes) = 1
    THEN Iteration(NoException, st, hp, lc, entries, TRUE, "edge", n.next_nodes[1], <<>>)
  ELSE Iteration(NoException, st, hp, lc, entries, TRUE, "edge", n.next_nodes[1],
                 <<Message("Multiple next nodes. Taking first.", current, Len(n.next_nodes))>>)

\* Mutant of LoopLimitExceeded: the bound is enforced on every loop node,
\* with or without a loop condition.
LoopLimitIgnoresCondition(count, node) == count > node.max_iterations

\* Mutant of LoopLimitExceeded: the bound is enforced one visit late.
LoopLimitOneLate(count, node) ==
  count > node.max_iterations + 1 /\ node.loop_condition = NoneFn

\* Mutant of LoopLimitExceeded: the bound is never enforced.
LoopLimitNever(count, node) == FALSE

\* Mutant of LoopLimitExceeded: >= for >.
LoopLimitOffByOne(count, node) ==
  count >= node.max_iterations /\ node.loop_condition = NoneFn

\* The test that raises the loop-limit RuntimeError: the counter, already
\* incremented for this visit, against the node's bound.
LoopLimitExceeded(count, node) ==
  count > node.max_iterations /\ node.loop_condition = NoneFn

\* Mutant of LoopDecision: the node repeats when its loop condition is false.
LoopDecisionInverted(node, st) ==
  LET c == CallCond(node.loop_condition, st) IN CondOutcome(c.exc, ~c.value)

\* Mutant of LoopDecision: the loop condition is not consulted, the node
\* never repeats.
LoopDecisionNever(node, st) == CondOutcome(NoException, FALSE)

\* node.loop_condition(state) of a loop node that has a loop condition.
LoopDecision(node, st) == CallCond(node.loop_condition, st)

\* The body of the while loop for the node current.
LoopBody(g, current, st, hp, lc) ==
  LET node == g.nodes[current]
      input_state == st
      is_loop == node.node_type = "loop"
      lc1 == IF is_loop
               THEN Update(lc, [k \in {current} |-> Get(lc, current, 0) + 1])
               ELSE lc
  IN
  IF is_loop /\ LoopLimitExceeded(lc1[current], node)
    THEN Except(Exception("RuntimeError",
                          Message("exceeded max iterations", current, node.max_iterations)),
                current, input_state, st, hp, lc1, <<>>, FALSE)
  ELSE
    LET result == CallFn(node.fn, st, hp) IN
    IF result.exc # NoException
      THEN Except(result.exc, current, input_state, result.arg, result.heap, lc1, <<>>, TRUE)
    ELSE
      LET st2 == Update(result.arg, result.result)
          log_entry == ExecutionLog(current, "success", input_state, st2, NoMessage)
      IN
      IF is_loop /\ node.loop_condition # NoneFn
        THEN LET c == LoopDecision(node, st2) IN
             IF c.exc # NoException
               THEN Except(c.exc, current, input_state, st2, result.heap, lc1,
                           <<log_entry>>, TRUE)
             ELSE IF c.value
               THEN Iteration(NoException, st2, result.heap, lc1, <<log_entry>>, TRUE,
                              "repeat", current, <<>>)
             ELSE FollowEdges(g, current, input_state, st2, result.heap,
                              [lc1 EXCEPT ![current] = 0], <<log_entry>>)
        ELSE FollowEdges(g, current, input_state, st2, result.heap, lc1, <<log_entry>>)

\* Mutant of CopyOnEntry: run starts from an empty state.
CopyOnEntryEmpty(d) == EmptyDict

\* state = initial_state.copy()
CopyOnEntry(d) == d

\* The exception as it reaches run's caller: the except clause's bare raise
\* raises the exception it caught.
Reraise(e, run_logs) == e

\* Mutant of StartRun: the no-start-node error goes through the except
\* clause, which logs an error entry before it raises.
StartRunLogsError(r) ==
  /\ pc[r] = "Idle"
  /\ pc' = [pc EXCEPT ![r] = "Failed"]
  /\ raised' = [raised EXCEPT
       ![r] = Exception("ValueError", Message("No start node defined", "", 0))]
  /\ logs' = [logs EXCEPT
       ![r] = <<ExecutionLog(None, "error", initial_state[r], initial_state[r],
                             Message("No start node defined", "", 0))>>]
  /\ UNCHANGED <<graph, heap, initial_state, state, visited_sequence, current_node_id,
                 loop_counter, calls, moves, warnings, builder, http>>

\* Mutant of StartRun: run clears the graph's terminal set on entry.
StartRunClearsEndNodes(r) ==
  /\ pc[r] = "Idle"
  /\ Truthy(graph.start_node)
  /\ graph' = [graph EXCEPT !.end_nodes = {}]
  /\ pc' = [pc EXCEPT ![r] = "Running"]
  /\ state' = [state EXCEPT ![r] = initial_state[r]]
  /\ current_node_id' = [current_node_id EXCEPT ![r] = graph.start_node]
  /\ UNCHANGED <<heap, initial_state, logs, visited_sequence, loop_counter, raised,
                 calls, moves, warnings, builder, http>>

\* run, to the first test of the while loop.
StartRun(r) ==
  /\ pc[r] = "Idle"
  /\ IF ~Truthy(graph.start_node)
       THEN /\ pc' = [pc EXCEPT ![r] = "Failed"]
            /\ raised' = [raised EXCEPT
                 ![r] = Exception("ValueError", Message("No start node defined", "", 0))]
            /\ UNCHANGED <<state, current_node_id>>
       ELSE /\ pc' = [pc EXCEPT ![r] = "Running"]
            /\ state' = [state EXCEPT ![r] = CopyOnEntry(initial_state[r])]
            /\ current_node_id' = [current_node_id EXCEPT ![r] = graph.start_node]
            /\ UNCHANGED raised
  /\ UNCHANGED <<graph, heap, initial_state, logs, visited_sequence, loop_counter,
                 calls, moves, warnings, builder, http>>

\* One iteration of the while loop, and the loop's test after it: run returns
\* (state, logs) when current_node_id is falsy.
RunStep(r) ==
  /\ pc[r] \in {"Running", "LoopRepeat"}
  /\ Len(logs[r]) < MaxLog
  /\ LET current == current_node_id[r]
         it == LoopBody(graph, current, state[r], heap, loop_counter[r])
     IN
     /\ visited_sequence' = [visited_sequence EXCEPT ![r] = Append(@, current)]
     /\ state' = [state EXCEPT ![r] = it.state]
     /\ heap' = it.heap
     /\ loop_counter' = [loop_counter EXCEPT ![r] = it.loop_counter]
     /\ logs' = [logs EXCEPT ![r] = @ \o it.entries]
     /\ calls' = [calls EXCEPT ![r] = IF it.called THEN Append(@, current) ELSE @]
     /\ warnings' = [warnings EXCEPT ![r] = @ \o it.warnings]
     /\ IF it.exc # NoException
          THEN /\ raised' = [raised EXCEPT ![r] = Reraise(it.exc, logs'[r])]
               /\ pc' = [pc EXCEPT ![r] = "Failed"]
               /\ UNCHANGED <<current_node_id, moves>>
          ELSE /\ current_node_id' = [current_node_id EXCEPT ![r] = it.current_node_id]
               /\ moves' = [moves EXCEPT
                    ![r] = Append(@, Move(current, it.kind, it.current_node_id))]
               /\ pc' = [pc EXCEPT ![r] =
                    IF it.kind = "repeat" THEN "LoopRepeat"
                    ELSE IF Truthy(it.current_node_id) THEN "Running"
                    ELSE "Terminated"]
               /\ UNCHANGED raised
  /\ UNCHANGED <<graph, initial_state, builder, http>>

\* ------------------------------------------------------------------ callers

Returned(r) == pc[r] \in {"Terminated", "Failed"}

\* The callers touch what they passed once every run has returned.
AllReturned == \A q \in Runs : Returned(q)

\* After run returned, the caller sets a key of the dict it passed.
CallerSetsKey(r) ==
  /\ AllReturned
  /\ Get(initial_state[r], "flag", 0) # 2
  /\ initial_state' = [initial_state EXCEPT ![r] = Update(@, [flag |-> 2])]
  /\ UNCHANGED <<graph, heap, pc, state, logs, visited_sequence, current_node_id,
                 loop_counter, raised, calls, moves, warnings, builder, http>>

\* After run returned, the caller appends to the list the dict it passed holds.
CallerAppends(r) ==
  /\ AllReturned
  /\ "items" \in DOMAIN initial_state[r]
  /\ heap[initial_state[r].items.ref] < MaxItems
  /\ heap' = [heap EXCEPT ![initial_state[r].items.ref] = @ + 1]
  /\ UNCHANGED <<graph, initial_state, pc, state, logs, visited_sequence,
                 current_node_id, loop_counter, raised, calls, moves, warnings,
                 builder, http>>

Next ==
  \E r \in Runs :
    \/ StartRun(r)
    \/ RunStep(r)
    \/ CallerSetsKey(r)
    \/ CallerAppends(r)

Spec == Init /\ [][Next]_vars

\* ------------------------------------------------- run, without its history

\* A loop counter is read only by the loop-limit test, against a bound of at
\* most MaxK: every count above MaxK gives the test the same answer.
SaturateCounters(lc) == [k \in DOMAIN lc |-> IF lc[k] > MaxK + 1 THEN MaxK + 1 ELSE lc[k]]

\* state["iteration"] is read only by the loop conditions "iteration < N",
\* N at most MaxN: every value above MaxN gives them the same answer.
SaturateState(st) ==
  IF "iteration" \in DOMAIN st /\ st["iteration"] > MaxN + 1
    THEN [st EXCEPT !["iteration"] = MaxN + 1]
    ELSE st

\* One iteration of the while loop, as RunStep, for a run of any length:
\* run never reads its logs or visited_sequence, so logs holds what the
\* latest iteration appended and visited_sequence the latest one or two
\* visits (no two successive iterations leave the same state), and the
\* counts are kept up to the value past which nothing in the loop tells
\* them apart.
LiveStep(r) ==
  /\ pc[r] \in {"Running", "LoopRepeat"}
  /\ LET current == current_node_id[r]
         it == LoopBody(graph, current, state[r], heap, loop_counter[r])
     IN
     /\ visited_sequence' = [visited_sequence EXCEPT
          ![r] = IF Len(@) < 2 THEN Append(@, current) ELSE <<current>>]
     /\ state' = [state EXCEPT ![r] = SaturateState(it.state)]
     /\ heap' = it.heap
     /\ loop_counter' = [loop_counter EXCEPT ![r] = SaturateCounters(it.loop_counter)]
     /\ logs' = [logs EXCEPT ![r] = it.entries]
     /\ calls' = [calls EXCEPT ![r] = IF it.called THEN <<current>> ELSE <<>>]
     /\ warnings' = [warnings EXCEPT ![r] = it.warnings]
     /\ IF it.exc # NoException
          THEN /\ raised' = [raised EXCEPT ![r] = Reraise(it.exc, logs'[r])]
               /\ pc' = [pc EXCEPT ![r] = "Failed"]
               /\ moves' = [moves EXCEPT ![r] = <<>>]
               /\ UNCHANGED current_node_id
          ELSE /\ current_node_id' = [current_node_id EXCEPT ![r] = it.current_node_id]
               /\ moves' = [moves EXCEPT
                    ![r] = <<Move(current, it.kind, it.current_node_id)>>]
               /\ pc' = [pc EXCEPT ![r] =
                    IF it.kind = "repeat" THEN "LoopRepeat"
                    ELSE IF Truthy(it.current_node_id) THEN "Running"
                    ELSE "Terminated"]
               /\ UNCHANGED raised
  /\ UNCHANGED <<graph, initial_state, builder, http>>

\* The callers that call run: one, whose dict shares no object with another.
LiveRuns == {1}

LiveInit == Init /\ initial_state[1]["items"] # initial_state[2]["items"]

LiveNext ==
  \E r \in LiveRuns :
    \/ StartRun(r)
    \/ LiveStep(r)

\* The caller calls run, and the thread executing the run keeps executing
\* it: every invocation of a fn, a loop condition or an edge condition
\* returns or raises.
LiveSpec ==
  /\ LiveInit
  /\ [][LiveNext]_vars
  /\ \A r \in LiveRuns : WF_vars(StartRun(r)) /\ WF_vars(LiveStep(r))

\* ------------------------------------------------------- building a graph

\* Edges a graph under construction is given.
MaxEdges == 2
\* The node ids the builder calls name: the empty string is a str.
BuildIds == {"A", ""}
\* The processing functions given to add_node.
BuildFns == {"inc", "fail"}
\* The lists given to set_end_nodes.
BuildEndLists ==
  {<<>>} \cup {<<x>> : x \in BuildIds} \cup {<<x, y>> : x \in BuildIds, y \in BuildIds}

\* A new WorkflowGraph, no run.
BuildInit ==
  /\ graph = EmptyGraph
  /\ heap = [a \in Addr |-> 0]
  /\ initial_state = [r \in Runs |-> [items |-> Ref(r)]]
  /\ pc = [r \in Runs |-> "Idle"]
  /\ state = [r \in Runs |-> EmptyDict]
  /\ logs = [r \in Runs |-> <<>>]
  /\ visited_sequence = [r \in Runs |-> <<>>]
  /\ current_node_id = [r \in Runs |-> None]
  /\ loop_counter = [r \in Runs |-> EmptyDict]
  /\ raised = [r \in Runs |-> NoException]
  /\ calls = [r \in Runs |-> <<>>]
  /\ moves = [r \in Runs |-> <<>>]
  /\ warnings = [r \in Runs |-> <<>>]
  /\ builder = NoBuilderCall
  /\ http = [r \in Runs |-> NoRequest]

\* A builder call with outcome b: the graph as the call leaves it.
Builds(b, op, args) ==
  /\ graph' = b.graph
  /\ builder' = BuilderCall(op, args, b.exc)
  /\ UNCHANGED <<heap, initial_state, pc, state, logs, visited_sequence,
                 current_node_id, loop_counter, raised, calls, moves, warnings, http>>

BuildAddNode ==
  \E node_id \in BuildIds, fn \in BuildFns :
    Builds(add_node(graph, node_id, Callable(fn, 0), "standard", NoneFn, 10),
           "add_node", <<node_id>>)

BuildAddEdge ==
  /\ Len(graph.edges) < MaxEdges
  /\ \E from_node \in BuildIds, to_node \in BuildIds :
       Builds(add_edge(graph, from_node, to_node, NoneFn), "add_edge", <<from_node, to_node>>)

BuildSetStartNode ==
  \E node_id \in BuildIds :
    Builds(set_start_node(graph, node_id), "set_start_node", <<node_id>>)

BuildSetEndNodes ==
  \E node_ids \in BuildEndLists :
    Builds(set_end_nodes(graph, node_ids), "set_end_nodes", node_ids)

BuildNext ==
  \/ BuildAddNode
  \/ BuildAddEdge
  \/ BuildSetStartNode
  \/ BuildSetEndNodes

BuildSpec == BuildInit /\ [][BuildNext]_vars

\* --------------------------------------------------- the code-review workflow

\* setup_code_review_workflow: the builder calls, in order.
CodeReviewGraph ==
  LET standard(g, node_id, fn) ==
        add_node(g, node_id, Callable(fn, 0), "standard", NoneFn, 10).graph
      g4 == standard(standard(standard(standard(EmptyGraph,
                "extract", "extract_functions"),
                "complexity", "check_complexity"),
                "detect_issues", "detect_issues"),
                "suggest", "suggest_improvements")
      g7 == add_edge(add_edge(add_edge(g4,
                "extract", "complexity", NoneFn).graph,
                "complexity", "detect_issues", NoneFn).graph,
                "detect_issues", "suggest", NoneFn).graph
  IN  set_end_nodes(set_start_node(g7, "extract").graph, <<"suggest">>).graph

\* Lines of a code text given to the workflow.
MaxLines == 3

\* The lines of the texts: a def line, an indented def line, a comment that
\* holds "def ", an import, a one-line docstring, a deeply nested statement.
ReviewLines ==
  {Line(0, <<"def ", "f", "(x):">>),
   Line(4, <<"def ", "g", "(self):">>),
   Line(0, <<"# ", "def ", "h">>),
   Line(0, <<"import", " os">>),
   Line(4, <<"\"\"\"", "doc", "\"\"\"">>),
   Line(12, <<"x = 1">>)}

ReviewCodes == UNION {[1..n -> ReviewLines] : n \in 1..MaxLines}

\* The callers pass value-equal dicts: {"code": text}, or {}.
ReviewStates ==
  {[r \in Runs |-> [code |-> c]] : c \in ReviewCodes} \cup {[r \in Runs |-> EmptyDict]}

ReviewInit ==
  /\ graph = CodeReviewGraph
  /\ heap = [a \in Addr |-> 0]
  /\ initial_state \in ReviewStates
  /\ pc = [r \in Runs |-> "Idle"]
  /\ state = [r \in Runs |-> EmptyDict]
  /\ logs = [r \in Runs |-> <<>>]
  /\ visited_sequence = [r \in Runs |-> <<>>]
  /\ current_node_id = [r \in Runs |-> None]
  /\ loop_counter = [r \in Runs |-> EmptyDict]
  /\ raised = [r \in Runs |-> NoException]
  /\ calls = [r \in Runs |-> <<>>]
  /\ moves = [r \in Runs |-> <<>>]
  /\ warnings = [r \in Runs |-> <<>>]
  /\ builder = NoBuilderCall
  /\ http = [r \in Runs |-> NoRequest]

ReviewNext ==
  \E r \in Runs :
    \/ StartRun(r)
    \/ RunStep(r)

ReviewSpec == ReviewInit /\ [][ReviewNext]_vars

\* ------------------------------------------------------ POST /graph/run

\* The id under which graph_store holds the graph, and an id it does not hold.
StoredId == "stored"
GraphIds == {StoredId, "unknown"}

\* graph_store.load_graph(graph_id): the graph, or None (found is FALSE).
load_graph(graph_id) == [found |-> graph_id = StoredId, graph |-> graph]

\* The graphs stored: the graph without nodes, and a single standard node
\* with a fn that returns, raises RuntimeError, or raises ValueError.
ApiGraphs ==
  {EmptyGraph}
    \cup {AddNodeSpec(EmptyGraph, "A", NodeSpec("standard", f, NoneFn, 0)) :
            f \in {"inc", "fail", "fail_value"}}

\* The ValueError run_graph raises for an id the store does not hold.
GraphNotFound(graph_id) == Exception("ValueError", Message("Graph not found", graph_id, 0))

\* run_graph's except clauses: the HTTPException for the exception e.
HttpError(graph_id, e) ==
  IF e.type = "ValueError"
    THEN HttpExchange(graph_id, 400, "", Str(e))
    ELSE HttpExchange(graph_id, 500, "Internal server error: ", Str(e))

ApiInit ==
  /\ graph \in ApiGraphs
  /\ heap = [a \in Addr |-> 0]
  /\ initial_state \in InitialStates
  /\ pc = [r \in Runs |-> "Idle"]
  /\ state = [r \in Runs |-> EmptyDict]
  /\ logs = [r \in Runs |-> <<>>]
  /\ visited_sequence = [r \in Runs |-> <<>>]
  /\ current_node_id = [r \in Runs |-> None]
  /\ loop_counter = [r \in Runs |-> EmptyDict]
  /\ raised = [r \in Runs |-> NoException]
  /\ calls = [r \in Runs |-> <<>>]
  /\ moves = [r \in Runs |-> <<>>]
  /\ warnings = [r \in Runs |-> <<>>]
  /\ builder = NoBuilderCall
  /\ http \in [Runs -> {HttpExchange(id, 0, "", NoMessage) : id \in GraphIds}]

\* run_graph, for an id the store does not hold: the ValueError it raises is
\* caught by its own except clause.
RunGraphNotFound(r) ==
  /\ pc[r] = "Idle"
  /\ http[r].status = 0
  /\ ~load_graph(http[r].graph_id).found
  /\ http' = [http EXCEPT ![r] = HttpError(@.graph_id, GraphNotFound(@.graph_id))]
  /\ UNCHANGED <<graph, heap, initial_state, pc, state, logs, visited_sequence,
                 current_node_id, loop_counter, raised, calls, moves, warnings, builder>>

\* run_graph, to the call of graph.run and run's first loop test.
RunGraphCalls(r) ==
  /\ http[r].status = 0
  /\ load_graph(http[r].graph_id).found
  /\ StartRun(r)

\* One iteration of the run run_graph called.
RunGraphStep(r) ==
  /\ http[r].status = 0
  /\ RunStep(r)

\* run_graph after graph.run returned or raised: the response, or the
\* HTTPException of the except clause that catches what run raised.
RunGraphResponds(r) ==
  /\ http[r].status = 0
  /\ Returned(r)
  /\ http' = [http EXCEPT
       ![r] = IF pc[r] = "Terminated"
                THEN HttpExchange(@.graph_id, 200, "", NoMessage)
                ELSE HttpError(@.graph_id, raised[r])]
  /\ UNCHANGED <<graph, heap, initial_state, pc, state, logs, visited_sequence,
                 current_node_id, loop_counter, raised, calls, moves, warnings, builder>>

ApiNext ==
  \E r \in Runs :
    \/ RunGraphNotFound(r)
    \/ RunGraphCalls(r)
    \/ RunGraphStep(r)
    \/ RunGraphResponds(r)

ApiSpec == ApiInit /\ [][ApiNext]_vars

\* ------------------------------------------------------------------ claims

\* How often x occurs in seq.
Count(seq, x) == Cardinality({i \in DOMAIN seq : seq[i] = x})

\* The entries of a log with the given node id and status.
Entries(log, node_id, status) ==
  {i \in DOMAIN log : log[i].node_id = node_id /\ log[i].status = status}

SuccessCount(log) == Cardinality({i \in DOMAIN log : log[i].status = "success"})

\* run r failed inside the while loop (not at the start-node test).
FailedInLoop(r) == pc[r] = "Failed" /\ visited_sequence[r] # <<>>

\* The last fn run r invoked raised: it was invoked and left no success entry.
FnRaised(r) == pc[r] = "Failed" /\ Len(calls[r]) = SuccessCount(logs[r]) + 1

\* The loop-limit RuntimeError of node x.
LoopLimitError(x) ==
  Exception("RuntimeError",
            Message("exceeded max iterations", x, graph.nodes[x].max_iterations))

\* C1 (as claimed): when run fails inside its loop, the exception that
\* reaches the caller carries the log accumulated up to the failure, its
\* error entry included.
C1_ErrorCarriesPartialLog ==
  \A r \in Runs :
    FailedInLoop(r) => "logs" \in DOMAIN raised[r] /\ raised[r].logs = logs[r]

\* C2: when the fn of node X raises, the log ends with an entry of node X
\* with status error and str of the raised exception as its error; every
\* earlier entry has status success; X is the last fn invoked and the last
\* node visited, so no node ran after it.
C2_FnErrorIsLastEntry ==
  \A r \in Runs :
    FnRaised(r) =>
      LET x == calls[r][Len(calls[r])]
          n == Len(logs[r])
          last == logs[r][n]
      IN  /\ n >= 1
          /\ last.node_id = x
          /\ last.status = "error"
          /\ last.error = Str(CallFn(graph.nodes[x].fn, last.input_state, heap).exc)
          /\ last.error = Str(raised[r])
          /\ \A i \in 1..(n - 1) : logs[r][i].status = "success"
          /\ visited_sequence[r][Len(visited_sequence[r])] = x
          /\ Len(visited_sequence[r]) = Len(calls[r])
          /\ n = Len(calls[r])

\* C2 witness: a fn raised after another node had succeeded.
C2_Witness ==
  \E r \in Runs : FnRaised(r) /\ Len(logs[r]) >= 2 /\ logs[r][1].node_id # logs[r][2].node_id

Min(a, b) == IF a < b THEN a ELSE b

\* The loop nodes without a loop condition.
UnconditionalLoops ==
  {x \in DOMAIN graph.nodes :
     graph.nodes[x].node_type = "loop" /\ graph.nodes[x].loop_condition = NoneFn}

\* C3: a loop node X without a loop condition and with max_iterations K (a
\* count, K in 0..MaxK), visited n times in a run: n <= K + 1; its fn was
\* invoked on the first K visits only, each with a success entry; the run
\* failed with the loop-limit error of X exactly when n = K + 1, and that
\* visit left an error entry.
C3_LoopLimitOnVisitKPlusOne ==
  \A r \in Runs : \A x \in UnconditionalLoops :
    LET K == graph.nodes[x].max_iterations
        n == Count(visited_sequence[r], x)
        limit == FailedInLoop(r) /\ raised[r] = LoopLimitError(x)
                   /\ visited_sequence[r][Len(visited_sequence[r])] = x
    IN  /\ n <= K + 1
        /\ Count(calls[r], x) = Min(n, K)
        /\ Cardinality(Entries(logs[r], x, "success")) = Min(n, K)
        /\ limit <=> n = K + 1
        /\ limit => /\ logs[r][Len(logs[r])].node_id = x
                    /\ logs[r][Len(logs[r])].status = "error"
                    /\ Cardinality(Entries(logs[r], x, "error")) = 1

\* C3 witness: a loop node with K = 2 reached its third visit (by a self-edge
\* or by a cycle through another node) and the run failed there.
C3_Witness ==
  \E r \in Runs : \E x \in UnconditionalLoops :
    /\ graph.nodes[x].max_iterations = 2
    /\ Count(visited_sequence[r], x) = 3
    /\ raised[r] = LoopLimitError(x)

\* The loop nodes whose fn counts iterations in the state and whose loop
\* condition is "iteration < N".
CountingLoops ==
  {x \in DOMAIN graph.nodes :
     /\ graph.nodes[x].node_type = "loop"
     /\ graph.nodes[x].fn.name = "inc"
     /\ graph.nodes[x].loop_condition.name = "iteration_lt"}

\* C4: a loop node X whose fn increments the iteration count and whose loop
\* condition is "iteration < N": from an execution of X that starts with
\* iteration count 0, the next N log entries are success entries of X
\* (counts 1..N), the first N - 1 of these executions repeat the node
\* without following an edge, and the N-th falls through to the edges.
C4_CountingLoopRunsNTimes ==
  \A r \in Runs : \A x \in CountingLoops :
    LET N == graph.nodes[x].loop_condition.arg IN
    \A i \in DOMAIN logs[r] :
      (logs[r][i].node_id = x /\ Get(logs[r][i].input_state, "iteration", 0) = 0) =>
        /\ \A j \in 0..(N - 1) :
             i + j <= Len(logs[r]) =>
               /\ logs[r][i + j].node_id = x
               /\ logs[r][i + j].status = "success"
               /\ logs[r][i + j].output_state.iteration = j + 1
               /\ i + j <= Len(moves[r])
               /\ moves[r][i + j].from = x
               /\ moves[r][i + j].kind = (IF j < N - 1 THEN "repeat" ELSE "edge")
                    \/ (j = N - 1 /\ moves[r][i + j].kind = "end")
        /\ i + N - 1 > Len(logs[r]) => pc[r] = "LoopRepeat" /\ current_node_id[r] = x

\* C4 witness: a loop with N = 2 ran twice and the run went on along an edge
\* to another node, which ran.
C4_Witness ==
  \E r \in Runs : \E x \in CountingLoops :
    /\ graph.nodes[x].loop_condition.arg = 2
    /\ Len(logs[r]) >= 3
    /\ logs[r][1].node_id = x /\ logs[r][2].node_id = x /\ logs[r][3].node_id # x
    /\ moves[r][1].kind = "repeat" /\ moves[r][2].kind = "edge"

\* An edge is eligible on a state: it has no condition, or its condition is
\* true on the state.
Eligible(e, st) == e.condition = NoneFn \/ CallCond(e.condition, st).value

\* The positions in graph.edges of the eligible edges that leave x.
EligibleEdges(x, st) ==
  {j \in DOMAIN graph.edges : graph.edges[j].from_node = x /\ Eligible(graph.edges[j], st)}

\* The destination of the first eligible edge leaving x, in insertion order.
FirstEligible(x, st) ==
  graph.edges[CHOOSE j \in EligibleEdges(x, st) : \A h \in EligibleEdges(x, st) : j <= h].to_node

\* C5 (as claimed): after a node finishes (and does not repeat as a loop),
\* if some outgoing edge is eligible on the post-update state then the node
\* executed next is the destination of the first eligible edge: it is the
\* next node visited, or the run is about to execute it.
C5_FirstEligibleEdgeIsExecuted ==
  \A r \in Runs : \A i \in DOMAIN moves[r] :
    LET x == moves[r][i].from
        st == logs[r][i].output_state
    IN  (moves[r][i].kind # "repeat" /\ EligibleEdges(x, st) # {}) =>
          /\ i < Len(visited_sequence[r]) => visited_sequence[r][i + 1] = FirstEligible(x, st)
          /\ i = Len(visited_sequence[r]) =>
               pc[r] = "Running" /\ current_node_id[r] = FirstEligible(x, st)

\* The last entry of a log.
Last(log) == log[Len(log)]

\* The success entry of the last fn call that returned (the success entries
\* come first in a log).
LastSuccess(r) == logs[r][SuccessCount(logs[r])]

\* The last fn call of run r returned, its node does not repeat (it is no
\* loop node with a loop condition, or the condition returned false) and no
\* outgoing edge of the node is eligible on the state the call left.
AtDeadEnd(r) ==
  /\ SuccessCount(logs[r]) >= 1
  /\ Len(calls[r]) = SuccessCount(logs[r])
  /\ visited_sequence[r][Len(visited_sequence[r])] = LastSuccess(r).node_id
  /\ LET node == graph.nodes[LastSuccess(r).node_id] IN
       (node.node_type = "loop" /\ node.loop_condition # NoneFn) =>
         LET c == CallCond(node.loop_condition, LastSuccess(r).output_state)
         IN  c.exc = NoException /\ ~c.value
  /\ EligibleEdges(LastSuccess(r).node_id, LastSuccess(r).output_state) = {}

NotAnEndNode(r) ==
  LastSuccess(r).node_id \notin graph.end_nodes /\ graph.end_nodes # {}

\* C10: a run whose node has no eligible outgoing edge ends there and
\* returns: it has terminated without an exception, its state is the state
\* its last entry records, its log has one success entry for each node
\* visited and no error entry; whether the node is in the terminal set only
\* decides the warning.
C10_DeadEndTerminates ==
  \A r \in Runs :
    AtDeadEnd(r) =>
      /\ pc[r] = "Terminated"
      /\ raised[r] = NoException
      /\ current_node_id[r] = None
      /\ state[r] = Last(logs[r]).output_state
      /\ Len(logs[r]) = Len(visited_sequence[r])
      /\ \A i \in DOMAIN logs[r] :
           logs[r][i].status = "success" /\ logs[r][i].node_id = visited_sequence[r][i]
      /\ NotAnEndNode(r) <=>
           \E i \in DOMAIN warnings[r] :
             warnings[r][i] =
               Message("ended at a node which is not an end node", LastSuccess(r).node_id, 0)

\* C10 witness: a run ended at a node outside a non-empty terminal set.
C10_Witness ==
  \E r \in Runs : AtDeadEnd(r) /\ NotAnEndNode(r) /\ pc[r] = "Terminated"

\* The two callers passed value-equal dicts that share no object.
DistinctObjects == initial_state[1]["items"] # initial_state[2]["items"]

\* C6 (as claimed): when the runs start from value-equal dicts that share no
\* object, the final state a run returned keeps its value: no step of the
\* other run and no change a caller makes to the dict it passed alters it.
C6_FinalStateKeepsItsValue ==
  [][\A r \in Runs :
       (DistinctObjects /\ pc[r] = "Terminated") =>
         Deep(state'[r], heap') = Deep(state[r], heap)]_vars

\* C7 (as claimed): no step of a run changes the value of a dict a caller
\* passed to run: it holds the keys and values it held before the step.
C7_RunLeavesCallerDictAlone ==
  [][\A r \in Runs :
       (StartRun(r) \/ RunStep(r)) =>
         \A q \in Runs :
           Deep(initial_state'[q], heap') = Deep(initial_state[q], heap)]_vars

\* The run of the graph from the dict d on the heap hp with no other run:
\* its position, locals and heap after n iterations of the while loop.
AloneStart(d, hp) ==
  [pc |-> "Running", current_node_id |-> graph.start_node, state |-> CopyOnEntry(d),
   heap |-> hp, loop_counter |-> EmptyDict, logs |-> <<>>, raised |-> NoException]

RECURSIVE Alone(_, _)
Alone(c, n) ==
  IF n = 0 \/ c.pc \in {"Terminated", "Failed"} THEN c
  ELSE LET it == LoopBody(graph, c.current_node_id, c.state, c.heap, c.loop_counter) IN
       Alone([pc |-> IF it.exc # NoException THEN "Failed"
                     ELSE IF it.kind = "repeat" THEN "LoopRepeat"
                     ELSE IF Truthy(it.current_node_id) THEN "Running"
                     ELSE "Terminated",
              current_node_id |-> it.current_node_id, state |-> it.state, heap |-> it.heap,
              loop_counter |-> it.loop_counter, logs |-> c.logs \o it.entries,
              raised |-> it.exc],
             n - 1)

\* C8 (as claimed): a run that has returned while the other run is in flight
\* (so no caller has touched what it passed) has the outcome, the final
\* state and the log it has when it runs alone from the same initial state.
C8_RunsIndependent ==
  \A r \in Runs :
    (Returned(r) /\ visited_sequence[r] # <<>> /\ ~AllReturned) =>
      LET a == Alone(AloneStart(initial_state[r], [x \in Addr |-> 0]),
                     Len(visited_sequence[r]))
      IN  /\ a.pc = pc[r]
          /\ a.raised = raised[r]
          /\ a.loop_counter = loop_counter[r]
          /\ Deep(a.state, a.heap) = Deep(state[r], heap)
          /\ Len(a.logs) = Len(logs[r])
          /\ \A i \in DOMAIN logs[r] :
               /\ a.logs[i].node_id = logs[r][i].node_id
               /\ a.logs[i].status = logs[r][i].status
               /\ a.logs[i].error = logs[r][i].error
               /\ Deep(a.logs[i].output_state, a.heap) = Deep(logs[r][i].output_state, heap)

\* C9 (as claimed): every run eventually reaches Terminated or Failed.
C9_EveryRunEnds == \A r \in LiveRuns : <>Returned(r)

\* The loop nodes the loop-limit test bounds.
Counted(g) ==
  {x \in DOMAIN g.nodes :
     g.nodes[x].node_type = "loop" /\ g.nodes[x].loop_condition = NoneFn}

\* y is reached from x by at least one and at most n edges of g through no
\* node of Counted(g).
RECURSIVE ReachesUncounted(_, _, _, _)
ReachesUncounted(g, x, y, n) ==
  /\ n > 0
  /\ x \notin Counted(g)
  /\ \E i \in DOMAIN g.edges :
       /\ g.edges[i].from_node = x
       /\ g.edges[i].to_node \notin Counted(g)
       /\ \/ g.edges[i].to_node = y
          \/ ReachesUncounted(g, g.edges[i].to_node, y, n - 1)

\* Every cycle of edges passes through a loop node without loop condition.
EveryCycleCounted(g) ==
  \A x \in DOMAIN g.nodes : ~ReachesUncounted(g, x, x, Cardinality(DOMAIN g.nodes))

\* g has a cycle of edges.
RECURSIVE Reaches(_, _, _, _)
Reaches(g, x, y, n) ==
  /\ n > 0
  /\ \E i \in DOMAIN g.edges :
       /\ g.edges[i].from_node = x
       /\ \/ g.edges[i].to_node = y
          \/ Reaches(g, g.edges[i].to_node, y, n - 1)

\* C9 (amended): when every cycle of edges passes through a loop node
\* without loop condition, every run eventually reaches Terminated or
\* Failed, or from some point on repeats a loop node whose loop condition
\* stays true.
C9_CountedRunEnds ==
  \A r \in LiveRuns :
    EveryCycleCounted(graph) => (<>[](pc[r] = "LoopRepeat") \/ <>Returned(r))

\* A run round a cycle of edges was ended by the loop-limit test, after at
\* least one full round.
C9_Witness ==
  \E r \in LiveRuns : \E x \in Counted(graph) :
    /\ EveryCycleCounted(graph)
    /\ Reaches(graph, x, x, Cardinality(DOMAIN graph.nodes))
    /\ graph.nodes[x].max_iterations >= 1
    /\ pc[r] = "Failed"
    /\ raised[r] = LoopLimitError(x)

\* The ValueError run raises when the graph has no start node.
NoStartNodeError == Exception("ValueError", Message("No start node defined", "", 0))

\* C11: a run of a graph that has no start node, once called, has failed
\* with the no-start-node ValueError, has invoked no fn and has created no
\* log entry (and has visited no node).
C11_NoStartNodeFailsFirst ==
  \A r \in Runs :
    (graph.start_node = None /\ pc[r] # "Idle") =>
      /\ pc[r] = "Failed"
      /\ raised[r] = NoStartNodeError
      /\ calls[r] = <<>>
      /\ logs[r] = <<>>
      /\ visited_sequence[r] = <<>>

\* run was called on the graph that has no node, hence no start node.
C11_Witness ==
  \E r \in Runs :
    graph.start_node = None /\ pc[r] = "Failed" /\ raised[r] = NoStartNodeError

\* The builder call c, made on the graph g, is one the claim says fails.
MustFail(c, g) ==
  \/ c.op = "add_node" /\ c.args[1] \in DOMAIN g.nodes
  \/ c.op = "add_edge" /\ (c.args[1] \notin DOMAIN g.nodes \/ c.args[2] \notin DOMAIN g.nodes)
  \/ c.op = "set_start_node" /\ c.args[1] \notin DOMAIN g.nodes
  \/ c.op = "set_end_nodes" /\ \E i \in DOMAIN c.args : c.args[i] \notin DOMAIN g.nodes

\* C12: a builder call that must fail raises, and a builder call that raises
\* leaves nodes, edges, start node and terminal set as they were.
C12_FailingBuilderCallChangesNothing ==
  [][/\ MustFail(builder', graph) => builder'.exc # NoException
     /\ builder'.exc # NoException => graph' = graph]_vars

\* add_node was called with the id of a registered node, on a graph that has
\* an edge, a start node and a terminal set.
C12_Witness ==
  /\ builder.op = "add_node"
  /\ builder.exc # NoException
  /\ builder.args[1] \in DOMAIN graph.nodes
  /\ graph.edges # <<>>
  /\ graph.end_nodes # {}

\* C13: after any sequence of builder calls, every node is registered under
\* its own id, every edge joins registered nodes, the start node (when set)
\* and every terminal id are registered nodes.
C13_GraphIntact ==
  /\ \A k \in DOMAIN graph.nodes : graph.nodes[k].id = k
  /\ \A i \in DOMAIN graph.edges :
       /\ graph.edges[i].from_node \in DOMAIN graph.nodes
       /\ graph.edges[i].to_node \in DOMAIN graph.nodes
  /\ graph.start_node # None => graph.start_node \in DOMAIN graph.nodes
  /\ graph.end_nodes \subseteq DOMAIN graph.nodes

\* A call failed on a graph that has two nodes, edges and a terminal set.
C13_Witness ==
  /\ builder.exc # NoException
  /\ DOMAIN graph.nodes = BuildIds
  /\ graph.edges # <<>>
  /\ graph.end_nodes # {}

\* C14: add_node on a graph without start node makes the added node the
\* start node; with a start node set, only a successful set_start_node(id)
\* changes it, to id.
C14_StartNodeIsFirstAdded ==
  [][/\ (graph.start_node = None /\ builder'.op = "add_node" /\ builder'.exc = NoException)
          => graph'.start_node = builder'.args[1]
     /\ (graph.start_node # None /\ builder'.op # "set_start_node")
          => graph'.start_node = graph.start_node
     /\ builder'.op = "set_start_node"
          => graph'.start_node = IF builder'.exc = NoException THEN builder'.args[1]
                                 ELSE graph.start_node]_vars

\* A second node was added to a graph whose first node, the start node, has
\* the empty id.
C14_Witness ==
  /\ builder.op = "add_node"
  /\ builder.exc = NoException
  /\ builder.args[1] = "A"
  /\ graph.start_node = ""

\* The graph is the single standard node x, without edges or terminal set.
SingleStandardNode(x) ==
  /\ DOMAIN graph.nodes = {x}
  /\ graph.nodes[x].node_type = "standard"
  /\ graph.edges = <<>>
  /\ graph.end_nodes = {}

\* The dict caller r passed to run, as it was when run was called: the
\* caller sets no key but "flag" afterwards.
PassedState(r) == [k \in DOMAIN initial_state[r] \ {"flag"} |-> initial_state[r][k]]

NodeIds(log) == [i \in DOMAIN log |-> log[i].node_id]

\* The def lines of a text: the lines whose first token is "def ".
DefLines(text) == Cardinality({i \in DOMAIN text : text[i].tokens[1] = "def "})

\* C16: on the code-review graph, a run whose code text has two def lines,
\* once it has returned, has terminated with function_count = 2 in its
\* state and a log of four success entries: extract, complexity,
\* detect_issues, suggest.
C16_CodeReviewScenario ==
  \A r \in Runs :
    ("code" \in DOMAIN initial_state[r] /\ DefLines(initial_state[r]["code"]) = 2
       /\ (Returned(r) \/ Len(logs[r]) = 4)) =>
      /\ pc[r] = "Terminated"
      /\ state[r]["function_count"] = 2
      /\ NodeIds(logs[r]) = <<"extract", "complexity", "detect_issues", "suggest">>
      /\ \A i \in DOMAIN logs[r] : logs[r][i].status = "success"

\* A run of a text with two def lines and a comment that holds "def "
\* has returned.
C16_Witness ==
  \E r \in Runs :
    /\ pc[r] = "Terminated"
    /\ "code" \in DOMAIN initial_state[r]
    /\ DefLines(initial_state[r]["code"]) = 2
    /\ TextCount(initial_state[r]["code"], "def ") = 3

\* The thresholds a quality score (0 to 100, held in tenths) can be below.
Thresholds == 1..1000

\* The latest node run r completed is suggest.
AfterSuggest(r) ==
  /\ logs[r] # <<>>
  /\ logs[r][Len(logs[r])].node_id = "suggest"
  /\ logs[r][Len(logs[r])].status = "success"

\* C18 (as claimed): whatever the threshold, after suggest_improvements ran
\* with a quality score below it the run goes back to detect_issues, and the
\* run has stopped only with a quality score of at least the threshold.
C18_LoopsUntilQuality ==
  \A r \in Runs : \A t \in Thresholds :
    /\ (AfterSuggest(r) /\ state[r]["quality_score"] < t) =>
         (pc[r] = "Running" /\ current_node_id[r] = "detect_issues")
    /\ (pc[r] = "Terminated") => state[r]["quality_score"] >= t

\* C17 (as claimed): a request for an unknown graph id or for a graph
\* without start node is answered with a 4xx status, a request whose run
\* failed in a node's fn with a 5xx status, whatever the fn raised; both
\* responses carry the message of the error.
C17_ErrorsMapToFaultClasses ==
  \A r \in Runs :
    http[r].status # 0 =>
      /\ ~load_graph(http[r].graph_id).found =>
           /\ http[r].status \in 400..499
           /\ http[r].message = Str(GraphNotFound(http[r].graph_id))
      /\ raised[r] = NoStartNodeError =>
           /\ http[r].status \in 400..499
           /\ http[r].message = Str(raised[r])
      /\ FnRaised(r) =>
           /\ http[r].status \in 500..599
           /\ http[r].message = Str(raised[r])

\* C19 (as claimed): a step of a run extends the run's log, and leaves the
\* node id, status, error and the values of the input and output snapshots
\* of every entry already in it as they were.  (Stated for the run's own
\* steps, the callers' dicts sharing no object.)
C19_LogAppendOnly ==
  [][\A r \in Runs :
       (DistinctObjects /\ RunStep(r)) =>
         /\ Len(logs'[r]) >= Len(logs[r])
         /\ \A i \in DOMAIN logs[r] :
              /\ logs'[r][i].node_id = logs[r][i].node_id
              /\ logs'[r][i].status = logs[r][i].status
              /\ logs'[r][i].error = logs[r][i].error
              /\ Deep(logs'[r][i].input_state, heap') = Deep(logs[r][i].input_state, heap)
              /\ Deep(logs'[r][i].output_state, heap') = Deep(logs[r][i].output_state, heap)]_vars

\* Run r is about to execute a loop node that has a loop condition, and the
\* node's fn returns.
AtPredicatedLoop(r) ==
  /\ pc[r] \in {"Running", "LoopRepeat"}
  /\ graph.nodes[current_node_id[r]].node_type = "loop"
  /\ graph.nodes[current_node_id[r]].loop_condition # NoneFn
  /\ CallFn(graph.nodes[current_node_id[r]].fn, state[r], heap).exc = NoException

\* C20: in a step that executes a loop node x with a loop condition, the
\* condition returning on the post-update state: if it is true, x is the
\* node executed next, whatever edges leave x, and x's counter is the count
\* of this visit, not reset; if it is false, x's counter is 0 and the next
\* node is the first destination of _get_next_nodes, or the run ends.
C20_LoopConditionDecides ==
  [][\A r \in Runs :
       (AtPredicatedLoop(r) /\ RunStep(r)) =>
         LET x == current_node_id[r]
             c == CallCond(graph.nodes[x].loop_condition, state'[r])
             n == _get_next_nodes(graph, x, state'[r])
         IN  c.exc = NoException =>
               IF c.value
                 THEN /\ pc'[r] = "LoopRepeat"
                      /\ current_node_id'[r] = x
                      /\ loop_counter'[r][x] = Get(loop_counter[r], x, 0) + 1
                      /\ moves'[r][Len(moves'[r])].kind = "repeat"
                      /\ warnings'[r] = warnings[r]
                 ELSE /\ loop_counter'[r][x] = 0
                      /\ n.exc = NoException
                      /\ pc'[r] \in {"Running", "Terminated"}
                      /\ current_node_id'[r] =
                           IF n.next_nodes = <<>> THEN None ELSE n.next_nodes[1]
                      /\ moves'[r][Len(moves'[r])].kind \in {"edge", "end"}]_vars

\* A loop node with a loop condition was repeated although an edge to
\* another node was eligible, and its counter stands at 2.
C20_Witness ==
  \E r \in Runs :
    /\ pc[r] = "LoopRepeat"
    /\ current_node_id[r] = "A"
    /\ graph.nodes["A"].loop_condition # NoneFn
    /\ loop_counter[r]["A"] = 2
    /\ _get_next_nodes(graph, "A", state[r]).next_nodes # <<>>
    /\ _get_next_nodes(graph, "A", state[r]).next_nodes[1] = "B"

\* C21: a run that failed with the loop-limit error of a node x: x is a loop
\* node, x has no loop condition and x's counter is above its
\* max_iterations.  (So no loop node with a loop condition, and no standard
\* or branch node, fails with it.)
C21_LoopLimitOnlyWithoutCondition ==
  \A r \in Runs : \A x \in DOMAIN graph.nodes :
    raised[r] = LoopLimitError(x) =>
      /\ graph.nodes[x].node_type = "loop"
      /\ graph.nodes[x].loop_condition = NoneFn
      /\ loop_counter[r][x] > graph.nodes[x].max_iterations

\* A loop node with a loop condition was visited three times, its counter 3
\* above its max_iterations 0, and the run has not failed.
C21_Witness ==
  \E r \in Runs : \E x \in DOMAIN graph.nodes :
    /\ graph.nodes[x].node_type = "loop"
    /\ graph.nodes[x].loop_condition # NoneFn
    /\ graph.nodes[x].max_iterations = 0
    /\ loop_counter[r] # EmptyDict
    /\ loop_counter[r][x] = 3
    /\ pc[r] = "LoopRepeat"

\* C22 (as claimed): in a step in which a node succeeds, fn returning the
\* map result for the state before the step: the state after the step holds
\* result's value under each key of result and, under every other key, what
\* the state before the step held, and no further key; and the new entry's
\* input snapshot is the state before the step.
C22_StateChangesByMergeOnly ==
  [][\A r \in Runs :
       (RunStep(r) /\ Len(calls'[r]) = Len(calls[r]) + 1
          /\ Len(logs'[r]) = Len(logs[r]) + 1
          /\ logs'[r][Len(logs'[r])].status = "success") =>
         LET result == CallFn(graph.nodes[current_node_id[r]].fn, state[r], heap).result IN
         /\ DOMAIN state'[r] = DOMAIN state[r] \cup DOMAIN result
         /\ \A k \in DOMAIN result : state'[r][k] = result[k]
         /\ \A k \in DOMAIN state[r] \ DOMAIN result : state'[r][k] = state[r][k]
         /\ logs'[r][Len(logs'[r])].input_state = state[r]]_vars

\* C23: a step of a run (run's entry, or an iteration of its loop, which
\* ends it by return or by raise) leaves the graph's nodes, edges, start
\* node and terminal set as they were.
C23_RunLeavesGraphAlone ==
  [][(pc' # pc \/ visited_sequence' # visited_sequence) => graph' = graph]_vars

\* Both runs are over, one of them after two visits or more, on a graph
\* that has an edge and a terminal set.
C23_Witness ==
  /\ AllReturned
  /\ \E r \in Runs : Len(visited_sequence[r]) >= 2
  /\ graph.edges # <<>>
  /\ graph.end_nodes # {}

\* C24: the counter of a loop node X without a loop condition is never reset
\* during a run: at every point of the run it equals the number of visits of
\* X so far, and the success entries of X in the log of the run, wherever
\* they stand in the log, are at most max_iterations.
C24_CounterNeverReset ==
  \A r \in Runs : \A x \in UnconditionalLoops :
    /\ Get(loop_counter[r], x, 0) = Count(visited_sequence[r], x)
    /\ Cardinality(Entries(logs[r], x, "success")) <= graph.nodes[x].max_iterations

\* A loop node with bound 2 succeeded twice with a visit of another node in
\* between, and its third visit, again after another node, hit the limit.
C24_Witness ==
  \E r \in Runs : \E x \in UnconditionalLoops :
    /\ graph.nodes[x].max_iterations = 2
    /\ Cardinality(Entries(logs[r], x, "success")) = 2
    /\ \A i \in 1..(Len(visited_sequence[r]) - 1) :
         visited_sequence[r][i] = x => visited_sequence[r][i + 1] # x
    /\ raised[r] = LoopLimitError(x)

\* C25: the log of every run is a chain over the state: the first entry's
\* input snapshot is the state passed to run, the input snapshot of each
\* later entry is the output snapshot of the entry before it, and the state
\* a run returns is the output snapshot of its last entry. Snapshots are
\* compared as the dicts they are (keys, values and references), so a shared
\* list does not make two of them differ.
C25_LogIsChain ==
  \A r \in Runs :
    /\ logs[r] # <<>> => logs[r][1].input_state = PassedState(r)
    /\ \A i \in 2..Len(logs[r]) : logs[r][i].input_state = logs[r][i - 1].output_state
    /\ (pc[r] = "Terminated" /\ logs[r] # <<>>) =>
         state[r] = logs[r][Len(logs[r])].output_state

\* C26: when a run has ended, by return or by a failure of any kind, its log
\* has as many entries as the run made invocations of processing functions,
\* and at most one error entry.
C26_OneEntryPerInvocation ==
  \A r \in Runs :
    Returned(r) =>
      /\ Len(logs[r]) = Len(calls[r])
      /\ Cardinality({i \in DOMAIN logs[r] : logs[r][i].status = "error"}) <= 1

\* C27: whatever strings are the node ids, the empty string included: a run
\* of a graph that has a node does not fail with the no-start-node error;
\* the destination an iteration selected by its edges is the node of the
\* next iteration; and a run returns only from an iteration that found no
\* eligible outgoing edge.
C27_EveryNodeIdRuns ==
  \A r \in Runs :
    /\ (DOMAIN graph.nodes # {} /\ pc[r] = "Failed") => raised[r] # NoStartNodeError
    /\ \A i \in DOMAIN moves[r] :
         moves[r][i].kind = "edge" =>
           /\ i < Len(visited_sequence[r]) => visited_sequence[r][i + 1] = moves[r][i].to
           /\ i = Len(visited_sequence[r]) =>
                pc[r] = "Running" /\ current_node_id[r] = moves[r][i].to
    /\ pc[r] = "Terminated" => moves[r][Len(moves[r])].kind = "end"

====
